---- MODULE Spec2Model ----
(***************************************************************************)
(* Ring signatures over a short-Weierstrass curve: the compiled            *)
(* RingSignature class (sign / partialSign / combine / verify), the        *)
(* projective-coordinate group law it rests on, and the objects the        *)
(* operations create.                                                      *)
(*                                                                         *)
(* The curve is y^2 = x^3 + 7, as in the source, over a small prime field  *)
(* whose group has prime order, so that every scalar, point and challenge  *)
(* can be enumerated: P = 13, N = 7, G = (7, 5).                           *)
(***************************************************************************)
EXTENDS Integers, Sequences, FiniteSets, TLC

(***************************************************************************)
(* Curve parameters (noble-SECP256k1.js, CURVE), scaled down.              *)
(***************************************************************************)
P == 13
N == 7
Gx == 7
Gy == 5
CurveA == 0
CurveB == 7

(***************************************************************************)
(* Bounds of the model.                                                    *)
(***************************************************************************)
MaxRing == 2
MaxCombine == 2

\* The element of a one-element set.  Written The({e(t) : t \in {v}}), it binds
\* t to the value of v, which is then computed once however often e uses it.
The(S) == CHOOSE x \in S : TRUE

(***************************************************************************)
(* Field arithmetic.                                                       *)
(***************************************************************************)
\* JavaScript's remainder: the sign of the result follows the dividend.
JsRem(a, b) == IF a >= 0 THEN a % b ELSE -((-a) % b)

\* JavaScript's bigint division: the quotient is truncated towards zero.
JsDiv(a, b) == IF a >= 0 THEN a \div b ELSE -((-a) \div b)

mod(a, b) == The({IF r >= 0 THEN r ELSE b + r : r \in {The({JsRem(x, b) : x \in {a}})}})

modP(a) == mod(a, P)

\* A range test that lets 0 through.
geOrZero(n) == 0 <= n /\ n < N

\* is field element / is group element
fe(n) == 0 < n /\ n < P
ge(n) == 0 < n /\ n < N

\* utils.modulo: the reduction the ring-signature code applies to scalars.
modulo(n, p) == mod(n, p)

\* while (a !== 0n) { q = b / a, r = b % a; m = x - u*q, n = y - v*q; ... }
RECURSIVE invLoop(_, _, _, _, _, _, _)
invLoop(a, b, x, y, u, v, md) ==
    IF a = 0
    THEN IF b = 1 THEN [err |-> "none", v |-> mod(x, md)]
                  ELSE [err |-> "no inverse", v |-> 0]
    ELSE The({invLoop(t.r, a, u, v, t.m, t.n, md) :
                t \in {[r |-> JsRem(b, a),
                        m |-> x - u * JsDiv(b, a),
                        n |-> y - v * JsDiv(b, a)]}})

\* An inversion that returns whatever the loop leaves, without b === 1n.
invWithoutGcdTest(num, md) ==
    IF num = 0 \/ md <= 0
    THEN [err |-> "no inverse", v |-> 0]
    ELSE [err |-> "none", v |-> invLoop(mod(num, md), md, 0, 1, 1, 0, md).v]

\* modular inversion by the extended Euclidean algorithm
inv(num, md) ==
    IF num = 0 \/ md <= 0
    THEN [err |-> "no inverse", v |-> 0]
    ELSE invLoop(mod(num, md), md, 0, 1, 1, 0, md)

(***************************************************************************)
(* SECP256K1Point: projective points <<X, Y, Z>>.                          *)
(***************************************************************************)
BASE == <<Gx, Gy, 1>>
ZERO == <<0, 1, 0>>

fromAffine(p) == <<p.x, p.y, 1>>

equals(a, b) ==
    /\ modP(a[1] * b[3]) = modP(b[1] * a[3])
    /\ modP(a[2] * b[3]) = modP(b[2] * a[3])

\* The registers of add before its first step.
addRegs(a, b) ==
    [X1 |-> a[1], Y1 |-> a[2], Z1 |-> a[3],
     X2 |-> b[1], Y2 |-> b[2], Z2 |-> b[3],
     X3 |-> 0, Y3 |-> 0, Z3 |-> 0, b3 |-> modP(CurveB * 3),
     t0 |-> 0, t1 |-> 0, t2 |-> 0, t3 |-> 0, t4 |-> 0, t5 |-> 0]

\* Step i of add, an assignment to one register.
addStep(i, s) ==
    CASE i = 1  -> [s EXCEPT !.t0 = modP(s.X1 * s.X2)]
      [] i = 2  -> [s EXCEPT !.t1 = modP(s.Y1 * s.Y2)]
      [] i = 3  -> [s EXCEPT !.t2 = modP(s.Z1 * s.Z2)]
      [] i = 4  -> [s EXCEPT !.t3 = modP(s.X1 + s.Y1)]
      [] i = 5  -> [s EXCEPT !.t4 = modP(s.X2 + s.Y2)]
      [] i = 6  -> [s EXCEPT !.t3 = modP(s.t3 * s.t4)]
      [] i = 7  -> [s EXCEPT !.t4 = modP(s.t0 + s.t1)]
      [] i = 8  -> [s EXCEPT !.t3 = modP(s.t3 - s.t4)]
      [] i = 9  -> [s EXCEPT !.t4 = modP(s.X1 + s.Z1)]
      [] i = 10 -> [s EXCEPT !.t5 = modP(s.X2 + s.Z2)]
      [] i = 11 -> [s EXCEPT !.t4 = modP(s.t4 * s.t5)]
      [] i = 12 -> [s EXCEPT !.t5 = modP(s.t0 + s.t2)]
      [] i = 13 -> [s EXCEPT !.t4 = modP(s.t4 - s.t5)]
      [] i = 14 -> [s EXCEPT !.t5 = modP(s.Y1 + s.Z1)]
      [] i = 15 -> [s EXCEPT !.X3 = modP(s.Y2 + s.Z2)]
      [] i = 16 -> [s EXCEPT !.t5 = modP(s.t5 * s.X3)]
      [] i = 17 -> [s EXCEPT !.X3 = modP(s.t1 + s.t2)]
      [] i = 18 -> [s EXCEPT !.t5 = modP(s.t5 - s.X3)]
      [] i = 19 -> [s EXCEPT !.Z3 = modP(CurveA * s.t4)]
      [] i = 20 -> [s EXCEPT !.X3 = modP(s.b3 * s.t2)]
      [] i = 21 -> [s EXCEPT !.Z3 = modP(s.X3 + s.Z3)]
      [] i = 22 -> [s EXCEPT !.X3 = modP(s.t1 - s.Z3)]
      [] i = 23 -> [s EXCEPT !.Z3 = modP(s.t1 + s.Z3)]
      [] i = 24 -> [s EXCEPT !.Y3 = modP(s.X3 * s.Z3)]
      [] i = 25 -> [s EXCEPT !.t1 = modP(s.t0 + s.t0)]
      [] i = 26 -> [s EXCEPT !.t1 = modP(s.t1 + s.t0)]
      [] i = 27 -> [s EXCEPT !.t2 = modP(CurveA * s.t2)]
      [] i = 28 -> [s EXCEPT !.t4 = modP(s.b3 * s.t4)]
      [] i = 29 -> [s EXCEPT !.t1 = modP(s.t1 + s.t2)]
      [] i = 30 -> [s EXCEPT !.t2 = modP(s.t0 - s.t2)]
      [] i = 31 -> [s EXCEPT !.t2 = modP(CurveA * s.t2)]
      [] i = 32 -> [s EXCEPT !.t4 = modP(s.t4 + s.t2)]
      [] i = 33 -> [s EXCEPT !.t0 = modP(s.t1 * s.t4)]
      [] i = 34 -> [s EXCEPT !.Y3 = modP(s.Y3 + s.t0)]
      [] i = 35 -> [s EXCEPT !.t0 = modP(s.t5 * s.t4)]
      [] i = 36 -> [s EXCEPT !.X3 = modP(s.t3 * s.X3)]
      [] i = 37 -> [s EXCEPT !.X3 = modP(s.X3 - s.t0)]
      [] i = 38 -> [s EXCEPT !.t0 = modP(s.t3 * s.t1)]
      [] i = 39 -> [s EXCEPT !.Z3 = modP(s.t5 * s.Z3)]
      [] i = 40 -> [s EXCEPT !.Z3 = modP(s.Z3 + s.t0)]

\* Steps i..40 of add, in order.
RECURSIVE addSteps(_, _)
addSteps(i, s) ==
    IF i > 40 THEN s
    ELSE The({addSteps(i + 1, t) : t \in {addStep(i, s)}})

\* Complete addition (Renes-Costello-Batina, algorithm 1).
add(a, b) ==
    The({<<s.X3, s.Y3, s.Z3>> : s \in {addSteps(1, addRegs(a, b))}})

\* A doubling that leaves the point as it is.
doubleSkipped(a) == a

double(a) == add(a, a)

\* The double-and-add ladder of mul: p the result, f the decoy, d the running
\* power of two; adds and doubles count the group operations performed.
RECURSIVE mulLoop(_, _, _, _, _, _, _)
mulLoop(p, f, d, n, safe, adds, doubles) ==
    IF n > 0
    THEN The({mulLoop(t.p, t.f, t.d, n \div 2, safe, adds + t.adds, doubles + 1) :
                t \in {[p |-> IF n % 2 = 1 THEN add(p, d) ELSE p,
                        f |-> IF n % 2 # 1 /\ safe THEN add(f, d) ELSE f,
                        d |-> double(d),
                        adds |-> IF n % 2 = 1 \/ safe THEN 1 ELSE 0]}})
    ELSE [err |-> "none", p |-> p, f |-> f, adds |-> adds, doubles |-> doubles]

\* A ladder that adds to the decoy in no mode.
mulWithoutDecoy(pt, n, safe) ==
    IF ~ge(n)
    THEN [err |-> "invalid scalar", p |-> ZERO, f |-> BASE, adds |-> 0, doubles |-> 0]
    ELSE mulLoop(ZERO, BASE, pt, n, FALSE, 0, 0)

mul(pt, n, safe) ==
    IF ~safe /\ n = 0
    THEN [err |-> "none", p |-> ZERO, f |-> BASE, adds |-> 0, doubles |-> 0]
    ELSE IF ~ge(n)
         THEN [err |-> "invalid scalar", p |-> ZERO, f |-> BASE, adds |-> 0, doubles |-> 0]
         ELSE mulLoop(ZERO, BASE, pt, n, safe, 0, 0)

toAffine(a) ==
    IF equals(a, ZERO)
    THEN [err |-> "none", x |-> 0, y |-> 0]
    ELSE IF a[3] = 1
         THEN [err |-> "none", x |-> a[1], y |-> a[2]]
         ELSE The({IF iz.err # "none"
                   THEN [err |-> iz.err, x |-> 0, y |-> 0]
                   ELSE IF modP(a[3] * iz.v) # 1
                        THEN [err |-> "invalid inverse", x |-> 0, y |-> 0]
                        ELSE [err |-> "none", x |-> modP(a[1] * iz.v),
                                               y |-> modP(a[2] * iz.v)] :
                     iz \in {inv(a[3], P)}})

(***************************************************************************)
(* JavaScript arrays are indexed from 0.                                   *)
(***************************************************************************)
At(s, i) == s[i + 1]

\* The position an index argument of slice stands for: a negative index counts
\* from the end of the array, and every index is clamped to [0, length].
JsIndex(i, len) ==
    IF i < 0 THEN (IF len + i < 0 THEN 0 ELSE len + i)
    ELSE IF i > len THEN len ELSE i

\* Array.prototype.slice(from, to)
slice(s, from, to) ==
    IF JsIndex(from, Len(s)) >= JsIndex(to, Len(s)) THEN <<>>
    ELSE SubSeq(s, JsIndex(from, Len(s)) + 1, JsIndex(to, Len(s)))

(***************************************************************************)
(* Point: an affine point object [ref, x, y].  ref is the identity of the  *)
(* JavaScript object (two objects may hold the same coordinates); the      *)
(* results of mult and add are new objects, written with ref 0.            *)
(***************************************************************************)
NewPoint(x, y) == [ref |-> 0, x |-> x, y |-> y]

GtoPoint == NewPoint(Gx, Gy)

\* Point.mult: scalar multiplication, in the safe mode of SECP256K1Point.mul.
PointMultOf(pt, scalar) ==
    The({IF m.err # "none" THEN [err |-> m.err, pt |-> NewPoint(0, 0)]
         ELSE The({[err |-> a.err, pt |-> NewPoint(a.x, a.y)] :
                     a \in {toAffine(m.p)}}) :
           m \in {mul(fromAffine(pt), scalar, TRUE)}})

\* The scalars mult is applied to: the residues mod N, and N itself.
Scalars == 0..N

\* The coordinates of Point objects: pairs of residues mod P.
Coords == (0..(P - 1)) \X (0..(P - 1))

\* PointMultOf for every point and scalar, as an explicit table (f @@ <<>> is f).
PointMultTable ==
    [c \in Coords, k \in Scalars |-> PointMultOf(NewPoint(c[1], c[2]), k)] @@ <<>>

PointMult(pt, scalar) == PointMultTable[<<pt.x, pt.y>>, scalar]

\* Point.add: the complete group law, total on curve points.
PointAddOf(p1, p2) ==
    The({[err |-> a.err, pt |-> NewPoint(a.x, a.y)] :
           a \in {The({toAffine(q) : q \in {add(fromAffine(p1), fromAffine(p2))}})}})

\* The coordinates of the curve's affine points, and of the point that stands
\* for the identity.
CurveCoords ==
    {c \in Coords :
        modP(c[2] * c[2]) = modP(c[1] * c[1] * c[1] + CurveA * c[1] + CurveB)}
      \cup {<<0, 0>>}

\* PointAddOf as an explicit table: the receiver is a multiple of G, the
\* argument any Point object (a multiple of a ring member, which the caller
\* may have built from coordinates that are not on the curve).
PointAddTable ==
    [c1 \in CurveCoords, c2 \in Coords |->
        PointAddOf(NewPoint(c1[1], c1[2]), NewPoint(c2[1], c2[2]))] @@ <<>>

PointAdd(p1, p2) == PointAddTable[<<p1.x, p1.y>>, <<p2.x, p2.y>>]

\* Point.equals: equality of the affine coordinates.
PointEquals(p1, p2) == p1.x = p2.x /\ p1.y = p2.y

\* Point.toString: the affine coordinates, as a sequence of symbols.
PointToString(pt) == <<pt.x, pt.y>>

\* Array.prototype.toString of a ring: its points' strings, in order.
RECURSIVE RingToStringFrom(_, _)
RingToStringFrom(ring, i) ==
    IF i > Len(ring) THEN <<>>
    ELSE PointToString(ring[i]) \o RingToStringFrom(ring, i + 1)

RingToString(ring) == The({RingToStringFrom(r, 1) : r \in {ring}})

\* The curve equation alone, without the range test on the coordinates.
isOnCurveUnranged(point) ==
    modulo(point.x * point.x * point.x + CurveB - point.y * point.y, P) = 0

\* Curve.isOnCurve(point), SECP256K1 case
isOnCurve(point) ==
    IF point.x >= P \/ point.y >= P \/ point.x <= 0 \/ point.y <= 0 THEN FALSE
    ELSE modulo(point.x * point.x * point.x + CurveB - point.y * point.y, P) = 0

\* derivePubKey: G * privateKey
derivePubKey(privateKey) == PointMult(GtoPoint, privateKey)

(***************************************************************************)
(* keccak256: a fixed deterministic digest of a sequence of symbols (a     *)
(* multiplicative fold into one byte), and BigInt("0x" + digest).          *)
(***************************************************************************)
RECURSIVE keccakFold(_, _, _)
keccakFold(h, bytes, i) ==
    IF i > Len(bytes) THEN h
    ELSE keccakFold((h * 31 + bytes[i] + 1) % 251, bytes, i + 1)

keccak256(bytes) == The({keccakFold(7, b, 1) : b \in {bytes}})

(***************************************************************************)
(* piSignature.ts                                                          *)
(***************************************************************************)
\* A response that does not depend on the private key.
piSignatureWithoutKey(alpha, c, signerPrivKey) ==
    [err |-> "none", v |-> modulo(alpha - c, N)]

\* piSignature: the signer's response r = alpha - c * signerPrivKey (mod N)
piSignature(alpha, c, signerPrivKey) ==
    IF signerPrivKey = 0 \/ signerPrivKey >= N
    THEN [err |-> "InvalidParams", v |-> 0]
    ELSE [err |-> "none", v |-> modulo(alpha - c * signerPrivKey, N)]

\* JavaScript values are dynamically typed: an argument is a bigint or a Point.
JsBigint(n) == [type |-> "bigint", n |-> n, pt |-> NewPoint(0, 0)]
JsPoint(pt) == [type |-> "Point", n |-> 0, pt |-> pt]

\* verifyPiSignature(alpha, signerPubKey, c, piSignature, curve): accepts iff
\* G * piSignature + signerPubKey * c = G * alpha.  Calling .mult on a bigint,
\* or multiplying by a Point, is a TypeError.
verifyPiSignature(alpha, signerPubKey, c, piSig) ==
    IF \/ alpha.type # "bigint" \/ signerPubKey.type # "Point"
       \/ c.type # "bigint" \/ piSig.type # "bigint"
    THEN "TypeError"
    ELSE The({IF t.rG.err # "none" THEN t.rG.err
              ELSE IF t.cK.err # "none" THEN t.cK.err
              ELSE IF t.aG.err # "none" THEN t.aG.err
              ELSE The({IF sum.err # "none" THEN sum.err
                        ELSE IF PointEquals(sum.pt, t.aG.pt) THEN "true"
                        ELSE "false" :
                          sum \in {PointAdd(t.rG.pt, t.cK.pt)}}) :
                t \in {[rG |-> PointMult(GtoPoint, piSig.n),
                        cK |-> PointMult(signerPubKey.pt, c.n),
                        aG |-> PointMult(GtoPoint, alpha.n)]}})

(***************************************************************************)
(* RingSignature                                                           *)
(***************************************************************************)
NoSig == [message |-> <<>>, ring |-> <<>>, c |-> 0, responses |-> <<>>]

\* A constructor that does not compare the lengths of ring and responses.
RingSignatureUnchecked(message, ring, c, responses) ==
    [err |-> "none",
     sig |-> [message |-> message, ring |-> ring, c |-> c,
              responses |-> responses]]

\* constructor(message, ring, c, responses, curve, safeMode = false)
RingSignature(message, ring, c, responses) ==
    IF Len(ring) # Len(responses)
    THEN [err |-> "Ring and responses length mismatch", sig |-> NoSig]
    ELSE [err |-> "none",
          sig |-> [message |-> message, ring |-> ring, c |-> c,
                   responses |-> responses]]

\* Strings of the JSON form are sequences of symbols: 0..9 are the decimal
\* digits, NotADigit any other character.
NotADigit == 10

\* BigInt(string): the number a decimal string denotes, a SyntaxError when a
\* character is not a digit.
RECURSIVE BigIntFrom(_, _, _)
BigIntFrom(str, i, acc) ==
    IF i > Len(str) THEN [err |-> "none", v |-> acc]
    ELSE IF str[i] \notin 0..9 THEN [err |-> "SyntaxError", v |-> 0]
    ELSE BigIntFrom(str, i + 1, acc * 10 + str[i])

BigInt(str) == BigIntFrom(str, 1, 0)

\* Point.fromString: the Point whose toString is the given string.
PointFromString(str) ==
    IF Len(str) = 2 /\ str[1] \in 0..(P - 1) /\ str[2] \in 0..(P - 1)
    THEN [err |-> "none", pt |-> NewPoint(str[1], str[2])]
    ELSE [err |-> "Invalid point string", pt |-> NewPoint(0, 0)]

\* fromJsonString(json), json being the object JSON.parse returns: the ring,
\* c, the responses and the curve are converted in this order, the
\* constructor is called, and whatever is thrown on the way is rethrown as
\* "Invalid json: " + e.
fromJsonString(json) ==
    IF \E i \in 1..Len(json.ring) : PointFromString(json.ring[i]).err # "none"
    THEN [err |-> "Invalid json", sig |-> NoSig]
    ELSE IF BigInt(json.c).err # "none"
    THEN [err |-> "Invalid json", sig |-> NoSig]
    ELSE IF \E i \in 1..Len(json.responses) :
                BigInt(json.responses[i]).err # "none"
    THEN [err |-> "Invalid json", sig |-> NoSig]
    ELSE IF json.curve # "SECP256K1"
    THEN [err |-> "Invalid json", sig |-> NoSig]
    ELSE The({IF out.err # "none" THEN [err |-> "Invalid json", sig |-> NoSig]
              ELSE out :
                out \in {RingSignature(
                            json.message,
                            [i \in 1..Len(json.ring) |->
                                PointFromString(json.ring[i]).pt],
                            BigInt(json.c).v,
                            [i \in 1..Len(json.responses) |->
                                BigInt(json.responses[i]).v])}})

\* modulo(BigInt("0x" + keccak256(ring + message + point.toString())), N)
hashToScalar(ring, message, point) ==
    modulo(keccak256(RingToString(ring) \o <<message>> \o PointToString(point)), N)

\* computeC: Hash(ring ++ message ++ (G*r + previousPubKey*previousC)) mod N
computeC(ring, message, r, previousC, previousPubKey) ==
    The({IF t.rG.err # "none" THEN [err |-> t.rG.err, v |-> 0]
         ELSE IF t.cK.err # "none" THEN [err |-> t.cK.err, v |-> 0]
         ELSE The({IF sum.err # "none" THEN [err |-> sum.err, v |-> 0]
                   ELSE [err |-> "none",
                         v |-> hashToScalar(ring, message, sum.pt)] :
                     sum \in {PointAdd(t.rG.pt, t.cK.pt)}}) :
           t \in {[rG |-> PointMult(GtoPoint, r),
                   cK |-> PointMult(previousPubKey, previousC)]}})

\* new Set(ring).size !== ring.length: some object occurs twice in the ring.
HasDuplicates(ring) ==
    \E i, j \in 1..Len(ring) : i < j /\ ring[i].ref = ring[j].ref

\* for (i = pi + 2; i < ring.length; i++) cValuesPI1N.push(computeC(...))
RECURSIVE loopPI1N(_, _, _, _, _, _)
loopPI1N(ring, digest, responses, pi, i, cValuesPI1N) ==
    IF i < Len(ring)
    THEN The({IF cc.err # "none" THEN [err |-> cc.err, v |-> cValuesPI1N]
              ELSE The({loopPI1N(ring, digest, responses, pi, i + 1, pushed) :
                          pushed \in {Append(cValuesPI1N, cc.v)}}) :
                cc \in {computeC(ring, digest, At(responses, i - 1),
                                 At(cValuesPI1N, i - pi - 2), At(ring, i - 1))}})
    ELSE [err |-> "none", v |-> cValuesPI1N]

\* for (i = 1; i < pi + 1; i++) cValues0PI[i] = computeC(...)
RECURSIVE loop0PI(_, _, _, _, _, _)
loop0PI(ring, digest, responses, pi, i, cValues0PI) ==
    IF i < pi + 1
    THEN The({IF cc.err # "none" THEN [err |-> cc.err, v |-> cValues0PI]
              ELSE The({loop0PI(ring, digest, responses, pi, i + 1, pushed) :
                          pushed \in {Append(cValues0PI, cc.v)}}) :
                cc \in {computeC(ring, digest, At(responses, i - 1),
                                 At(cValues0PI, i - 1), At(ring, i - 1))}})
    ELSE [err |-> "none", v |-> cValues0PI]

NoRaw == [ring |-> <<>>, pi |-> 0, cees |-> <<>>, alpha |-> 0, responses |-> <<>>]

RawErr(e) == [err |-> e, raw |-> NoRaw]

\* The c values from 0 to pi with c0 computed from the first of cValuesPI1N.
cValues0PIFromFirst(ring, digest, responses, pi, cValuesPI1N) ==
    The({IF c0.err # "none" THEN [err |-> c0.err, v |-> <<>>]
         ELSE loop0PI(ring, digest, responses, pi, 1, <<c0.v>>) :
           c0 \in {computeC(ring, digest, At(responses, Len(responses) - 1),
                            At(cValuesPI1N, 0), At(ring, Len(ring) - 1))}})

\* The c values from 0 to pi: c0 computed from the last of cValuesPI1N, then
\* the loop up to pi.
cValues0PIOf(ring, digest, responses, pi, cValuesPI1N) ==
    The({IF c0.err # "none" THEN [err |-> c0.err, v |-> <<>>]
         ELSE loop0PI(ring, digest, responses, pi, 1, <<c0.v>>) :
           c0 \in {computeC(ring, digest, At(responses, Len(responses) - 1),
                            At(cValuesPI1N, Len(cValuesPI1N) - 1),
                            At(ring, Len(ring) - 1))}})

\* signature, from the duplicate check on: ring is the ring with the signer's
\* key inserted at pi.
signatureChain(ring, messageDigest, alpha, pi, responses) ==
    IF HasDuplicates(ring) THEN RawErr("Ring contains duplicates")
    ELSE IF PointMult(GtoPoint, alpha).err # "none"
         THEN RawErr(PointMult(GtoPoint, alpha).err)
    ELSE The({IF cValuesPI1N.err # "none" THEN RawErr(cValuesPI1N.err)
              ELSE The({IF cValues0PI.err # "none" THEN RawErr(cValues0PI.err)
                        ELSE [err |-> "none",
                              raw |-> [ring |-> ring, pi |-> pi,
                                       cees |-> cValues0PI.v \o cValuesPI1N.v,
                                       alpha |-> alpha,
                                       responses |-> responses]] :
                          cValues0PI \in {cValues0PIOf(ring, messageDigest, responses,
                                                       pi, cValuesPI1N.v)}}) :
                cValuesPI1N \in
                  {loopPI1N(ring, messageDigest, responses, pi, pi + 2,
                            <<hashToScalar(ring, messageDigest,
                                           PointMult(GtoPoint, alpha).pt)>>)}})

\* A signature that puts the signer's key after the last ring member.
signatureKeyLast(ring0, signerKey, message, alpha, pi, responses) ==
    The({IF signerPubKey.err # "none" THEN RawErr(signerPubKey.err)
         ELSE signatureChain(ring0 \o <<signerPubKey.pt>>,
                             keccak256(message), alpha, pi, responses) :
           signerPubKey \in {IF signerKey.type = "bigint"
                             THEN derivePubKey(signerKey.n)
                             ELSE [err |-> "none", pt |-> signerKey.pt]}})

\* signature(curve, ring, signerKey, message): the incomplete ring signature.
\* signerKey is a JavaScript value, a private key (bigint) or a public key
\* (Point); alpha, pi and responses are the outcomes of the random draws.
signature(ring0, signerKey, message, alpha, pi, responses) ==
    The({IF signerPubKey.err # "none" THEN RawErr(signerPubKey.err)
         ELSE signatureChain(slice(ring0, 0, pi) \o <<signerPubKey.pt>>
                               \o slice(ring0, pi, Len(ring0)),
                             keccak256(message), alpha, pi, responses) :
           signerPubKey \in {IF signerKey.type = "bigint"
                             THEN derivePubKey(signerKey.n)
                             ELSE [err |-> "none", pt |-> signerKey.pt]}})

\* sign, ring.length > 0: the signer's response closes the chain at pi.
signRing(ring, signerPrivateKey, message, alpha, pi, responses) ==
    The({IF rawSignature.err # "none" THEN [err |-> rawSignature.err, sig |-> NoSig]
         ELSE The({IF signerResponse.err # "none"
                   THEN [err |-> signerResponse.err, sig |-> NoSig]
                   ELSE RingSignature(message, rawSignature.raw.ring,
                                      At(rawSignature.raw.cees, 0),
                                      slice(rawSignature.raw.responses, 0,
                                            rawSignature.raw.pi)
                                        \o <<signerResponse.v>>
                                        \o slice(rawSignature.raw.responses,
                                                 rawSignature.raw.pi + 1,
                                                 Len(rawSignature.raw.responses))) :
                     signerResponse \in
                       {piSignature(rawSignature.raw.alpha,
                                    At(rawSignature.raw.cees, rawSignature.raw.pi),
                                    signerPrivateKey)}}) :
           rawSignature \in {signature(ring, JsBigint(signerPrivateKey), message,
                                       alpha, pi, responses)}})

\* sign, ring.length === 0: a Schnorr-like signature over the signer's own key,
\* alpha computed from the drawn c.
signEmpty(signerPrivateKey, message, c) ==
    The({IF t.sig.err # "none" THEN [err |-> t.sig.err, sig |-> NoSig]
         ELSE IF t.K.err # "none" THEN [err |-> t.K.err, sig |-> NoSig]
         ELSE RingSignature(message, <<t.K.pt>>, c, <<t.sig.v>>) :
           t \in {[sig |-> piSignature(modulo(2 * c + 1, N), c, signerPrivateKey),
                   K |-> PointMult(GtoPoint, signerPrivateKey)]}})

NoPartial ==
    [message |-> <<>>, ring |-> <<>>, c |-> 0, cpi |-> 0, responses |-> <<>>,
     pi |-> 0, alpha |-> 0]

\* partialSign(ring, message, signerPubKey, curve)
partialSign(ring, message, signerPubKey, alpha, pi, responses) ==
    IF Len(ring) = 0
    THEN [err |-> "To proceed partial signing, ring length must be greater than 0",
          partial |-> NoPartial]
    ELSE The({IF rawSignature.err # "none"
              THEN [err |-> rawSignature.err, partial |-> NoPartial]
              ELSE [err |-> "none",
                    partial |-> [message |-> message,
                                 ring |-> rawSignature.raw.ring,
                                 c |-> At(rawSignature.raw.cees, 0),
                                 cpi |-> At(rawSignature.raw.cees,
                                            rawSignature.raw.pi),
                                 responses |-> rawSignature.raw.responses,
                                 pi |-> rawSignature.raw.pi,
                                 alpha |-> rawSignature.raw.alpha]] :
                rawSignature \in {signature(ring, JsPoint(signerPubKey), message,
                                            alpha, pi, responses)}})

\* combine(partialSig, signerResponse)
combine(partialSig, signerResponse) ==
    RingSignature(partialSig.message, partialSig.ring, partialSig.c,
                  slice(partialSig.responses, 0, partialSig.pi)
                    \o <<signerResponse>>
                    \o slice(partialSig.responses, partialSig.pi + 1,
                             Len(partialSig.responses)))

\* for (i = 2; i < ring.length; i++) lastComputedCp = computeC(...)
RECURSIVE verifyLoop(_, _, _, _)
verifyLoop(sig, messageDigest, i, lastComputedCp) ==
    IF lastComputedCp.err = "none" /\ i < Len(sig.ring)
    THEN The({verifyLoop(sig, messageDigest, i + 1, cp) :
                cp \in {computeC(sig.ring, messageDigest, At(sig.responses, i - 1),
                                 lastComputedCp.v, At(sig.ring, i - 1))}})
    ELSE lastComputedCp

\* The chain of verify for ring.length > 1, from c1' to the comparison with c.
verifyChain(sig, messageDigest) ==
    The({IF lastComputedCp.err # "none" THEN lastComputedCp.err
         ELSE The({IF c0.err # "none" THEN c0.err
                   ELSE IF sig.c = c0.v THEN "true" ELSE "false" :
                     c0 \in {computeC(sig.ring, messageDigest,
                                      At(sig.responses, Len(sig.responses) - 1),
                                      lastComputedCp.v,
                                      At(sig.ring, Len(sig.ring) - 1))}}) :
           lastComputedCp \in
             {The({verifyLoop(sig, messageDigest, 2, c1) :
                     c1 \in {computeC(sig.ring, messageDigest,
                                      At(sig.responses, 0), sig.c,
                                      At(sig.ring, 0))}})}})

\* A verify without the empty-ring check, which answers false for a ring of
\* at most one member (the behaviour of the earlier src/src/ringSignature.ts).
verifyWithoutEmptyCheck(sig) ==
    IF Len(sig.ring) # Len(sig.responses)
    THEN "ring and responses length mismatch"
    ELSE IF Len(sig.ring) > 1
         THEN verifyChain(sig, keccak256(sig.message))
    ELSE "false"

\* verify(): "true", "false", or the message of the error thrown.
verify(sig) ==
    IF Len(sig.ring) = 0 THEN "Ring length must be greater than 0"
    ELSE IF Len(sig.ring) # Len(sig.responses)
         THEN "ring and responses length mismatch"
    ELSE IF Len(sig.ring) > 1
         THEN verifyChain(sig, keccak256(sig.message))
    ELSE verifyPiSignature(JsPoint(At(sig.ring, 0)),
                           JsBigint(At(sig.responses, 0)),
                           JsBigint(modulo(2 * sig.c + 1, N)),
                           JsBigint(sig.c))

\* ---------------------------------------------------------------------------
\* Inputs of the explored calls
\* ---------------------------------------------------------------------------

\* Messages, as byte strings.
Messages == {<<1>>, <<2>>}

\* Outcomes of randomBigint(curve.N) explored for alpha and the fake responses:
\* the ends of [1, N-1] and its midpoint.
Draws == {1, (N - 1) \div 2, N - 1}

\* Signer private keys.
Keys == {1, 2}

\* Point objects held by the caller: object i has the coordinates of G*(i+1).
CallerPoint(i) == [derivePubKey(i + 1).pt EXCEPT !.ref = i]

CallerPoints == {CallerPoint(i) : i \in 1..3}

\* Valid points a ring entry can be replaced by.
ValidPoints == {CallerPoint(i) : i \in 1..4}

\* The caller's own object for the signer's public key (partialSign).
SignerPubKey(k) == [derivePubKey(k).pt EXCEPT !.ref = 10 + k]

SeqsOf(S, n) == [1..n -> S]

\* Caller rings: arrays of at most MaxRing caller points.
Rings == UNION {SeqsOf(CallerPoints, n) : n \in 1..MaxRing}

\* A Point object the caller built from coordinates that are not on the curve.
InvalidPoint == [ref |-> 20, x |-> 1, y |-> 1]

\* A second Point object with the coordinates of caller point 1.
TwinPoint == [CallerPoint(1) EXCEPT !.ref = 21]

\* Caller rings with two equal points held in different objects, and with a
\* point that is not on the curve.
ExtraRings ==
    {<<CallerPoint(1), TwinPoint>>, <<InvalidPoint>>,
     <<CallerPoint(2), InvalidPoint>>}

\* The rings passed to sign and partialSign.
SignRings == Rings \cup ExtraRings

\* PartialSignature objects written by the caller as object literals: the ring
\* of the first n caller points, any pi around the ring's index range, scalars
\* of which at most one is 0, responses of any length up to MaxRing.
CraftRing(n) == [i \in 1..n |-> CallerPoint(i)]

CraftScalars ==
    {t \in [{"c", "cpi", "alpha"} -> {0, 1}] :
        Cardinality({f \in {"c", "cpi", "alpha"} : t[f] = 0}) <= 1}

CraftPartials ==
    {[message |-> m, ring |-> CraftRing(n), c |-> t["c"], cpi |-> t["cpi"],
      responses |-> rs, pi |-> pi, alpha |-> t["alpha"]] :
        m \in {<<>>, <<1>>}, n \in 0..MaxRing, t \in CraftScalars,
        pi \in (0 - 1)..MaxRing,
        rs \in UNION {SeqsOf({0, 1}, l) : l \in 0..MaxRing}}

\* Parsed JSON objects handed to fromJsonString: the strings of the first n
\* caller points, decimal or malformed scalars, a known or unknown curve name.
JsonInputs ==
    {[message |-> m, ring |-> [i \in 1..n |-> PointToString(CallerPoint(i))],
      c |-> cs, responses |-> rs, curve |-> cv] :
        m \in Messages, n \in 0..MaxRing, cs \in {<<1>>, <<NotADigit>>},
        rs \in UNION {SeqsOf({<<2>>, <<NotADigit>>}, l) : l \in 0..MaxRing},
        cv \in {"SECP256K1", "UNKNOWN"}}

\* coordinates of pt occur in ring
Contains(ring, pt) == \E i \in 1..Len(ring) : PointEquals(ring[i], pt)

\* pairwise distinct by coordinates
Distinct(ring) ==
    \A i, j \in 1..Len(ring) : i # j => ~PointEquals(ring[i], ring[j])

\* ---------------------------------------------------------------------------
\* State: one RingSignature object and one PartialSignature object held by the
\* caller, with the record of how they were obtained.
\* ---------------------------------------------------------------------------

VARIABLES
    sig,        \* the RingSignature object (its public fields)
    partial,    \* the PartialSignature object
    origin,     \* the call that produced them, and its arguments
    tamper,     \* the field of sig assigned after construction, "none" if none
    result,     \* what verify() returned or threw, "none" before it is called
    err,        \* the error thrown by the last producing call, "none" if none
    calls,      \* combine calls made on partial
    combined,   \* combine calls on partial that returned a RingSignature
    call        \* the last call of a library function: arguments and outcome

vars == <<sig, partial, origin, tamper, result, err, calls, combined, call>>

\* ring is the ring the caller passed, piSet the outcomes the draw of the
\* signer's slot ranges over, response the signerResponse of the last combine.
NoOrigin ==
    [op |-> "none", key |-> 0, message |-> <<>>, wellFormed |-> FALSE,
     honest |-> FALSE, ring |-> <<>>, piSet |-> {}, response |-> 0]

\* No library function has been called.
NoCall == [fn |-> "none"]

Init ==
    /\ sig = NoSig
    /\ partial = NoPartial
    /\ origin = NoOrigin
    /\ tamper = "none"
    /\ result = "none"
    /\ err = "none"
    /\ calls = 0
    /\ combined = 0
    /\ call = NoCall

\* The caller ring is made of pairwise-distinct points on the curve, none of
\* them the signer's public key.
WellFormedRing(ring, k) ==
    /\ Distinct(ring)
    /\ ~Contains(ring, derivePubKey(k).pt)
    /\ \A i \in 1..Len(ring) : isOnCurve(ring[i])

\* Outcomes of getRandomSecuredNumber(0, ring.length - 1); for the empty ring,
\* where partialSign throws before the draw, the single value 0.
PiDraws(ring) == IF Len(ring) = 0 THEN {0} ELSE 0..(Len(ring) - 1)

\* RingSignature.sign(ring, signerPrivateKey, message, curve), ring.length > 0
Sign ==
    /\ origin.op = "none"
    /\ \E ring \in SignRings, k \in Keys, m \in Messages, alpha \in Draws :
       \E pi \in PiDraws(ring), rs \in SeqsOf(Draws, Len(ring) + 1) :
          \E out \in {signRing(ring, k, m, alpha, pi, rs)} :
              /\ sig' = out.sig
              /\ err' = out.err
              /\ origin' = [op |-> "sign", key |-> k, message |-> m,
                            wellFormed |-> WellFormedRing(ring, k),
                            honest |-> TRUE, ring |-> ring,
                            piSet |-> PiDraws(ring), response |-> 0]
    /\ UNCHANGED <<partial, tamper, result, calls, combined, call>>

\* RingSignature.sign([], signerPrivateKey, message, curve)
SignEmpty ==
    /\ origin.op = "none"
    /\ \E k \in Keys, m \in Messages, c \in 1..(N - 1) :
          \E out \in {signEmpty(k, m, c)} :
              /\ sig' = out.sig
              /\ err' = out.err
              /\ origin' = [op |-> "signEmpty", key |-> k, message |-> m,
                            wellFormed |-> TRUE, honest |-> TRUE,
                            ring |-> <<>>, piSet |-> {}, response |-> 0]
    /\ UNCHANGED <<partial, tamper, result, calls, combined, call>>

\* RingSignature.partialSign(ring, message, signerPubKey, curve)
PartialSign ==
    /\ origin.op = "none"
    /\ \E ring \in SignRings \cup {<<>>}, k \in Keys, m \in Messages,
          alpha \in Draws :
       \E pi \in PiDraws(ring), rs \in SeqsOf(Draws, Len(ring) + 1) :
          \E out \in {partialSign(ring, m, SignerPubKey(k), alpha, pi, rs)} :
              /\ partial' = out.partial
              /\ err' = out.err
              /\ origin' = [op |-> "partialSign", key |-> k, message |-> m,
                            wellFormed |-> WellFormedRing(ring, k),
                            honest |-> FALSE, ring |-> ring,
                            piSet |-> PiDraws(ring), response |-> 0]
    /\ UNCHANGED <<sig, tamper, result, calls, combined, call>>

\* The caller writes a PartialSignature object literal.
CraftPartial ==
    /\ origin.op = "none"
    /\ \E p \in CraftPartials :
          /\ p # NoPartial
          /\ partial' = p
          /\ origin' = [NoOrigin EXCEPT !.op = "craft", !.key = 1,
                                        !.message = p.message, !.ring = p.ring]
    /\ UNCHANGED <<sig, tamper, result, err, calls, combined, call>>

\* RingSignature.combine(partial, signerResponse): the response is the one the
\* holder of the private key computes, piSignature(alpha, cpi, k), or any other
\* scalar, 0 included.
Combine ==
    /\ origin.op \in {"partialSign", "craft", "combine"}
    /\ partial # NoPartial
    /\ result = "none"
    /\ calls < MaxCombine
    /\ \E signerResponse \in
            Draws \cup {0, piSignature(partial.alpha, partial.cpi, origin.key).v} :
          \E out \in {combine(partial, signerResponse)} :
              /\ sig' = out.sig
              /\ err' = out.err
              /\ combined' = IF out.err = "none" THEN combined + 1 ELSE combined
              /\ origin' = [origin EXCEPT
                     !.op = "combine",
                     !.response = signerResponse,
                     !.honest = (signerResponse =
                         piSignature(partial.alpha, partial.cpi, origin.key).v)]
    /\ calls' = calls + 1
    /\ UNCHANGED <<partial, tamper, result, call>>

\* new RingSignature(message, ring, c, responses, curve)
Construct ==
    /\ origin.op = "none"
    /\ \E m \in Messages, ring \in Rings \cup {<<>>}, c \in Draws,
          n \in 0..MaxRing :
       \E responses \in SeqsOf(Draws, n) :
          \E out \in {RingSignature(m, ring, c, responses)} :
              /\ sig' = out.sig
              /\ err' = out.err
              /\ origin' = [op |-> "new", key |-> 0, message |-> m,
                            wellFormed |-> Distinct(ring), honest |-> FALSE,
                            ring |-> ring, piSet |-> {}, response |-> 0]
    /\ UNCHANGED <<partial, tamper, result, calls, combined, call>>

\* RingSignature.fromJsonString(json)
FromJsonString ==
    /\ origin.op = "none"
    /\ \E json \in JsonInputs :
          \E out \in {fromJsonString(json)} :
              /\ sig' = out.sig
              /\ err' = out.err
              /\ origin' = [NoOrigin EXCEPT !.op = "fromJson",
                                            !.message = json.message]
    /\ UNCHANGED <<partial, tamper, result, calls, combined, call>>

\* A RingSignature object exists.
HasSig ==
    /\ origin.op \in {"sign", "signEmpty", "combine", "new", "fromJson"}
    /\ err = "none"

CanTamper ==
    /\ origin.op \in {"sign", "signEmpty"}
    /\ err = "none"
    /\ tamper = "none"
    /\ result = "none"

\* sig.message = m, a different message
SetMessage ==
    /\ CanTamper
    /\ \E m \in Messages :
          /\ m # sig.message
          /\ sig' = [sig EXCEPT !.message = m]
    /\ tamper' = "message"
    /\ UNCHANGED <<partial, origin, result, err, calls, combined, call>>

\* sig.ring[i] = pt, a different valid point
SetRingEntry ==
    /\ CanTamper
    /\ \E i \in 1..Len(sig.ring), pt \in ValidPoints :
          /\ ~PointEquals(pt, sig.ring[i])
          /\ sig' = [sig EXCEPT !.ring[i] = pt]
    /\ tamper' = "ring"
    /\ UNCHANGED <<partial, origin, result, err, calls, combined, call>>

\* sig.responses[i] = (sig.responses[i] + 1) mod N
IncResponse ==
    /\ CanTamper
    /\ \E i \in 1..Len(sig.responses) :
          sig' = [sig EXCEPT !.responses[i] = modulo(sig.responses[i] + 1, N)]
    /\ tamper' = "response"
    /\ UNCHANGED <<partial, origin, result, err, calls, combined, call>>

\* sig.c = (sig.c + 1) mod N
IncC ==
    /\ CanTamper
    /\ sig' = [sig EXCEPT !.c = modulo(sig.c + 1, N)]
    /\ tamper' = "c"
    /\ UNCHANGED <<partial, origin, result, err, calls, combined, call>>

\* sig.ring.pop()
RingPop ==
    /\ CanTamper
    /\ Len(sig.ring) > 0
    /\ sig' = [sig EXCEPT !.ring = slice(sig.ring, 0, Len(sig.ring) - 1)]
    /\ tamper' = "ring.pop"
    /\ UNCHANGED <<partial, origin, result, err, calls, combined, call>>

\* sig.responses.pop()
ResponsesPop ==
    /\ CanTamper
    /\ Len(sig.responses) > 0
    /\ sig' = [sig EXCEPT
                  !.responses = slice(sig.responses, 0, Len(sig.responses) - 1)]
    /\ tamper' = "responses.pop"
    /\ UNCHANGED <<partial, origin, result, err, calls, combined, call>>

\* sig.verify()
Verify ==
    /\ HasSig
    /\ result = "none"
    /\ result' = verify(sig)
    /\ UNCHANGED <<sig, partial, origin, tamper, err, calls, combined, call>>

Next ==
    \/ Sign
    \/ SignEmpty
    \/ PartialSign
    \/ CraftPartial
    \/ Combine
    \/ Construct
    \/ FromJsonString
    \/ SetMessage
    \/ SetRingEntry
    \/ IncResponse
    \/ IncC
    \/ RingPop
    \/ ResponsesPop
    \/ Verify

Spec == Init /\ [][Next]_vars

\* ---------------------------------------------------------------------------
\* Properties
\* ---------------------------------------------------------------------------

\* verify() has been called and answered true or false (it did not throw).
Answered == result \in {"true", "false"}

\* The signature's fields are structurally well formed: a non-empty ring of
\* valid curve points, as many responses, c and every response in [1, N-1].
WellFormedSig ==
    /\ Len(sig.ring) >= 1
    /\ Len(sig.ring) = Len(sig.responses)
    /\ \A i \in 1..Len(sig.ring) :
          \E j \in 1..(N - 1) : PointEquals(sig.ring[i], derivePubKey(j).pt)
    /\ sig.c \in 1..(N - 1)
    /\ \A i \in 1..Len(sig.responses) : sig.responses[i] \in 1..(N - 1)

\* C1: for a caller ring of distinct valid points without the signer's key,
\* any key, message and outcome of the draws, sign returns a signature and
\* verify() on it returns true.
C1_SignThenVerify ==
    (origin.op = "sign" /\ origin.wellFormed /\ tamper = "none")
        => (err = "none" /\ result \in {"none", "true"})

\* C2: combine(partialSign(ring, message, K), piSignature(alpha, cpi, k))
\* returns a signature on which verify() returns true.
C2_PartialCombineVerify ==
    (origin.op = "combine" /\ origin.wellFormed /\ origin.honest)
        => (err = "none" /\ result \in {"none", "true"})

\* C3: sign([], k, message) returns a signature whose ring is the signer's own
\* key alone, whose response is piSignature((2c + 1) mod N, c, k), and on which
\* verify() returns true.
C3_SignEmptyVerifies ==
    (origin.op = "signEmpty" /\ tamper = "none")
        => /\ err = "none"
           /\ Len(sig.ring) = 1
           /\ PointEquals(sig.ring[1], derivePubKey(origin.key).pt)
           /\ sig.responses =
                 <<modulo(modulo(2 * sig.c + 1, N) - sig.c * origin.key, N)>>
           /\ result \in {"none", "true"}

\* C4: on a signature made by sign([], k, message), after the message is
\* replaced by a different one verify() returns false.
C4_EmptyRingMessageTamper ==
    (origin.op = "signEmpty" /\ tamper = "message" /\ result # "none")
        => result = "false"

\* C5: on a signature made by sign with a ring of length >= 2, after the
\* message or one ring entry is replaced verify() answers (false, or true in
\* the case of a hash collision, which the claim sets aside) and does not throw.
C5_TamperedMessageOrRingAnswers ==
    (/\ origin.op = "sign" /\ origin.wellFormed
     /\ tamper \in {"message", "ring"}
     /\ Len(sig.ring) >= 2
     /\ result # "none")
        => Answered

\* C6: on a signature made by sign, of any ring size, after one response or c
\* is incremented by 1 mod N verify() answers (false, or true in the case of a
\* hash collision, which the claim sets aside) and does not throw.
C6_IncrementedResponseOrCAnswers ==
    (/\ origin.op \in {"sign", "signEmpty"} /\ origin.wellFormed
     /\ tamper \in {"response", "c"}
     /\ result # "none")
        => Answered

\* C7: a PartialSignature is combined at most once: of the combine calls made
\* on one PartialSignature, at most one returns a RingSignature.
C7_CombinedAtMostOnce == combined <= 1

\* C8: on every structurally well-formed signature verify() answers true or
\* false; it never throws.
C8_VerifyTotalOnWellFormed ==
    (HasSig /\ WellFormedSig /\ result # "none") => Answered

\* C9: when ring.length differs from responses.length, verify() fails with the
\* length-mismatch error, also when the ring is empty.
C9_LengthMismatchFirst ==
    (HasSig /\ result # "none" /\ Len(sig.ring) # Len(sig.responses))
        => result = "ring and responses length mismatch"

Combined == origin.op = "combine"

\* combine threw and returned no RingSignature.
CombineFailed == err # "none" /\ sig = NoSig

\* C11: combine on a PartialSignature whose message is the empty string fails
\* and returns no RingSignature.
C11_CombineRejectsEmptyMessage ==
    (Combined /\ partial.message = <<>>) => CombineFailed

\* C12: combine fails and returns no RingSignature when pi is outside
\* [0, ring.length) and when c, cpi or alpha is 0.
C12_CombineRejectsInvalidParams ==
    (Combined /\ (\/ partial.pi < 0
                  \/ partial.pi >= Len(partial.ring)
                  \/ partial.c = 0
                  \/ partial.cpi = 0
                  \/ partial.alpha = 0))
        => CombineFailed

\* C13: combine fails when signerResponse is 0 and when a response already in
\* the PartialSignature is 0.
C13_CombineRejectsZeroResponse ==
    (Combined /\ (\/ origin.response = 0
                  \/ \E i \in 1..Len(partial.responses) :
                        partial.responses[i] = 0))
        => CombineFailed

\* C14: for every pi in [0, ring.length), combine fails with the length
\* mismatch of ring and responses when the PartialSignature's ring and
\* responses differ in length.
C14_CombineRejectsLengthMismatch ==
    (Combined /\ partial.pi \in 0..(Len(partial.ring) - 1)
              /\ Len(partial.ring) # Len(partial.responses))
        => (err = "Ring and responses length mismatch" /\ sig = NoSig)

\* C15: a combine that succeeds returns the message, ring and c of the
\* PartialSignature, as many responses as ring members, signerResponse at
\* index pi and the PartialSignature's responses everywhere else.
C15_CombineFrame ==
    (Combined /\ err = "none") =>
        /\ sig.message = partial.message
        /\ sig.ring = partial.ring
        /\ sig.c = partial.c
        /\ Len(sig.responses) = Len(sig.ring)
        /\ partial.pi \in 0..(Len(sig.responses) - 1)
        /\ At(sig.responses, partial.pi) = origin.response
        /\ \A i \in 0..(Len(sig.responses) - 1) :
              i # partial.pi =>
                  /\ i < Len(partial.responses)
                  /\ At(sig.responses, i) = At(partial.responses, i)

\* C16: every RingSignature returned by the constructor, sign, combine or
\* fromJsonString, its fields not assigned since, has as many responses as ring
\* members.
C16_RingResponsesSameLength ==
    (HasSig /\ tamper = "none") => Len(sig.ring) = Len(sig.responses)

\* combine returned a RingSignature from a PartialSignature whose responses
\* were not as many as its ring members.
C16_CombinedFromShortResponses ==
    /\ Combined
    /\ err = "none"
    /\ Len(partial.ring) # Len(partial.responses)
    /\ Len(sig.ring) >= 1

\* C17: in a signature sign returns for a caller ring of at least one member,
\* c and every response, the signer's included, are in [1, N-1].
C17_ScalarsInRange ==
    (origin.op = "sign" /\ origin.wellFormed /\ err = "none" /\ tamper = "none")
        => /\ sig.c \in 1..(N - 1)
           /\ \A i \in 1..Len(sig.responses) : sig.responses[i] \in 1..(N - 1)

\* C18: in sign and partialSign the signer's slot is drawn from the whole of
\* [0, ring.length] of the caller ring, the position after its last member
\* included, and from nothing else.
C18_PiOverAllInsertionPoints ==
    (origin.op \in {"sign", "partialSign"} /\ Len(origin.ring) >= 1)
        => origin.piSet = 0..Len(origin.ring)

\* C19: sign and partialSign fail with the duplicates error when the signer's
\* public key has the coordinates of a member of the caller ring, and when two
\* members of the caller ring have the same coordinates.
C19_DuplicatesByCoordinates ==
    (origin.op \in {"sign", "partialSign"}
        /\ (\/ Contains(origin.ring, derivePubKey(origin.key).pt)
            \/ ~Distinct(origin.ring)))
        => err = "Ring contains duplicates"

\* C20: sign rejects a caller ring that has a member which is not on the
\* curve: it throws and returns no signature.
C20_InvalidRingPointRejected ==
    (origin.op = "sign"
        /\ \E i \in 1..Len(origin.ring) : ~isOnCurve(origin.ring[i]))
        => (err # "none" /\ sig = NoSig)

\* ---------------------------------------------------------------------------
\* The library functions, called on their own: each action applies one
\* function to arguments drawn from its input set and records the outcome.
\* The functions keep no state between calls, so one call is explored from
\* the initial state for every choice of arguments.
\* ---------------------------------------------------------------------------

\* Scalars handed to mul: [1, N-1] and the values around both of its ends.
MulScalars == (0 - 2)..(N + 1)

\* Receivers of mul: the curve's affine points and the identity.
MulPoints ==
    {fromAffine(NewPoint(c[1], c[2])) : c \in CurveCoords \ {<<0, 0>>}}
      \cup {ZERO}

\* mul(k, safe) and mul(k2, safe) on the same receiver q.
CallMul ==
    /\ call = NoCall
    /\ \E q \in MulPoints, k \in MulScalars, k2 \in MulScalars, safe \in BOOLEAN :
         \E out \in {mul(q, k, safe)}, out2 \in {mul(q, k2, safe)} :
           call' = [fn |-> "mul", q |-> q, k |-> k, k2 |-> k2, safe |-> safe,
                    out |-> out, out2 |-> out2]
    /\ UNCHANGED <<sig, partial, origin, tamper, result, err, calls, combined>>

\* Curve.isOnCurve(point): switch (this.name), where every name other than
\* SECP256K1 takes the default branch, which warns and returns false.
isOnCurveOf(name, point) ==
    IF name = "SECP256K1" THEN isOnCurve(point) ELSE FALSE

\* Names of Curve objects: the supported curve and an unsupported one.
CurveNames == {"SECP256K1", "UNKNOWN"}

\* Coordinates handed to isOnCurve: the field elements, the values below and
\* above their range, and the field elements shifted by P.
CoordInputs == (0 - 1)..(2 * P - 1)

CallIsOnCurve ==
    /\ call = NoCall
    /\ \E name \in CurveNames, x \in CoordInputs, y \in CoordInputs :
         call' = [fn |-> "isOnCurve", name |-> name, x |-> x, y |-> y,
                  out |-> isOnCurveOf(name, NewPoint(x, y))]
    /\ UNCHANGED <<sig, partial, origin, tamper, result, err, calls, combined>>

\* A checkRing that compares ring members as objects, not by coordinates.
checkRingByIdentity(ring, curve, allowEmpty) ==
    IF Len(ring) = 0 /\ ~allowEmpty THEN "EmptyRing"
    ELSE IF \E i, j \in 1..Len(ring) : i # j /\ ring[i].ref = ring[j].ref
    THEN "DuplicateRingMember"
    ELSE IF \E i \in 1..Len(ring) :
                ~isOnCurveOf(curve, ring[i]) \/ ring[i].curve # curve
    THEN "InvalidPoint"
    ELSE "none"

\* checkRing(ring, curve, allowEmpty): the error it throws, "none" when it
\* returns.  Ring members carry the name of their curve.
checkRing(ring, curve, allowEmpty) ==
    IF Len(ring) = 0 /\ ~allowEmpty THEN "EmptyRing"
    ELSE IF \E i, j \in 1..Len(ring) : i # j /\ PointEquals(ring[i], ring[j])
    THEN "DuplicateRingMember"
    ELSE IF \E i \in 1..Len(ring) :
                ~isOnCurveOf(curve, ring[i]) \/ ring[i].curve # curve
    THEN "InvalidPoint"
    ELSE "none"

\* Point objects handed to checkRing: G, a second object with the coordinates
\* of G, 2G, a point with x = 0, and a point tagged with another curve.
TaggedPoint(ref, x, y, curve) == [ref |-> ref, x |-> x, y |-> y, curve |-> curve]

CheckPoints ==
    {TaggedPoint(1, Gx, Gy, "SECP256K1"), TaggedPoint(2, Gx, Gy, "SECP256K1"),
     TaggedPoint(3, derivePubKey(2).pt.x, derivePubKey(2).pt.y, "SECP256K1"),
     TaggedPoint(4, 0, Gy, "SECP256K1"),
     TaggedPoint(5, derivePubKey(3).pt.x, derivePubKey(3).pt.y, "UNKNOWN")}

CheckRings == UNION {SeqsOf(CheckPoints, n) : n \in 0..MaxRing}

CallCheckRing ==
    /\ call = NoCall
    /\ \E ring \in CheckRings, curve \in CurveNames, allowEmpty \in BOOLEAN :
         call' = [fn |-> "checkRing", ring |-> ring, curve |-> curve,
                  allowEmpty |-> allowEmpty,
                  out |-> checkRing(ring, curve, allowEmpty)]
    /\ UNCHANGED <<sig, partial, origin, tamper, result, err, calls, combined>>

\* Arguments of inv: numbers on both sides of 0 and beyond the modulus, and
\* moduli from -1 up, prime and composite.
InvNums == (0 - P)..(2 * P)

InvMods == (0 - 1)..P

CallInv ==
    /\ call = NoCall
    /\ \E num \in InvNums, md \in InvMods :
         call' = [fn |-> "inv", num |-> num, md |-> md, out |-> inv(num, md)]
    /\ UNCHANGED <<sig, partial, origin, tamper, result, err, calls, combined>>

\* signature(curve, ring, signerKey, message) with the signer's private key,
\* as sign calls it, for every outcome of its draws.
CallSignature ==
    /\ call = NoCall
    /\ \E ring \in Rings, k \in Keys, m \in Messages, alpha \in Draws :
       \E pi \in PiDraws(ring), rs \in SeqsOf(Draws, Len(ring) + 1) :
          call' = [fn |-> "signature", ring |-> ring, key |-> k, message |-> m,
                   out |-> signature(ring, JsBigint(k), m, alpha, pi, rs)]
    /\ UNCHANGED <<sig, partial, origin, tamper, result, err, calls, combined>>

\* piSignature for two private keys, with the same alpha and c.
CallPiSignature ==
    /\ call = NoCall
    /\ \E alpha \in 0..(N - 1), c \in 0..(N - 1), k \in 1..(N - 1),
          k2 \in 1..(N - 1) :
         call' = [fn |-> "piSignature", alpha |-> alpha, c |-> c, k |-> k,
                  k2 |-> k2, out |-> piSignature(alpha, c, k),
                  out2 |-> piSignature(alpha, c, k2)]
    /\ UNCHANGED <<sig, partial, origin, tamper, result, err, calls, combined>>

\* The message of a parsed JSON object, with its JavaScript type: a string,
\* or a number written with the same digits.
JsonMessages ==
    {[type |-> t, v |-> m] : t \in {"string", "number"}, m \in Messages}

\* RingSignature.fromJsonString on the objects of JsonInputs, the message
\* being a string or a number.
CallFromJsonString ==
    /\ call = NoCall
    /\ \E j \in JsonInputs, m \in JsonMessages :
       \E json \in {[j EXCEPT !.message = m]} :
          call' = [fn |-> "fromJsonString", json |-> json,
                   out |-> fromJsonString(json)]
    /\ UNCHANGED <<sig, partial, origin, tamper, result, err, calls, combined>>

LibNext ==
    \/ CallMul
    \/ CallInv
    \/ CallIsOnCurve
    \/ CallCheckRing
    \/ CallSignature
    \/ CallPiSignature
    \/ CallFromJsonString

LibSpec == Init /\ [][LibNext]_vars

\* The number of binary digits of n >= 1.
RECURSIVE bitLength(_)
bitLength(n) == IF n <= 0 THEN 0 ELSE 1 + bitLength(n \div 2)

\* acc with k more summands q added to it, one addition at a time.
RECURSIVE kTimesFrom(_, _, _)
kTimesFrom(acc, q, k) ==
    IF k <= 0 THEN acc
    ELSE The({kTimesFrom(next, q, k - 1) : next \in {add(acc, q)}})

\* q added to itself under the group law, k summands in all.
kTimes(q, k) == kTimesFrom(ZERO, q, k)

\* C22: in safe mode, two scalars of [1, N-1] with the same bit length cost mul
\* the same number of point additions and the same number of doublings.
C22_SafeMulCostByBitLength ==
    (/\ call.fn = "mul" /\ call.safe
     /\ call.k \in 1..(N - 1) /\ call.k2 \in 1..(N - 1)
     /\ bitLength(call.k) = bitLength(call.k2))
    => (/\ call.out.err = "none" /\ call.out2.err = "none"
        /\ call.out.adds = call.out2.adds
        /\ call.out.doubles = call.out2.doubles)

\* Two scalars of the same bit length and different bit patterns were used.
C22_SameLengthDifferentBits ==
    /\ call.fn = "mul" /\ call.safe
    /\ call.k = N - 1 /\ call.k2 = N - 3
    /\ bitLength(call.k) = bitLength(call.k2)
    /\ call.out.adds = bitLength(call.k)
    /\ call.q # ZERO

\* C23: mul throws "invalid scalar" for every k outside [1, N-1], except that
\* in unsafe mode k = 0 returns the identity point.
C23_MulRejectsOutOfRange ==
    (call.fn = "mul" /\ call.k \notin 1..(N - 1))
    => IF ~call.safe /\ call.k = 0
       THEN call.out.err = "none" /\ call.out.p = ZERO
       ELSE call.out.err = "invalid scalar"

\* mul was called with 0 in safe mode and threw.
C23_ZeroRejectedInSafeMode ==
    /\ call.fn = "mul" /\ call.safe /\ call.k = 0
    /\ call.out.err = "invalid scalar"
    /\ call.q # ZERO

\* C29: for k in [1, N-1], mul(k) returns the receiver added to itself k times,
\* and returns the same point in safe and in unsafe mode.
C29_MulIsRepeatedAddition ==
    (call.fn = "mul" /\ call.k \in 1..(N - 1))
    => (/\ call.out.err = "none"
        /\ equals(call.out.p, kTimes(call.q, call.k))
        /\ call.out.p = mul(call.q, call.k, ~call.safe).p)

\* mul(N - 2) of a point other than the identity returned a point other than
\* the identity.
C29_MulOfCurvePoint ==
    /\ call.fn = "mul" /\ call.k = N - 2 /\ call.safe
    /\ call.q # ZERO
    /\ call.out.err = "none"
    /\ ~equals(call.out.p, ZERO)

\* C27: isOnCurve returns true iff the curve is the Weierstrass curve,
\* 0 < x < P, 0 < y < P and x^3 + 7 - y^2 is a multiple of P; for every other
\* input it returns false.
C27_IsOnCurveIffEquationInRange ==
    (call.fn = "isOnCurve")
    => (call.out = TRUE
        <=> (/\ call.name = "SECP256K1"
             /\ 0 < call.x /\ call.x < P
             /\ 0 < call.y /\ call.y < P
             /\ (call.x * call.x * call.x + 7 - call.y * call.y) % P = 0))

\* isOnCurve returned false for coordinates that satisfy the equation and lie
\* above the range.
C27_ShiftedPointRejected ==
    /\ call.fn = "isOnCurve" /\ call.name = "SECP256K1"
    /\ call.x = Gx + P /\ call.y = Gy
    /\ call.out = FALSE

\* C21: checkRing returns iff the ring is non-empty or allowEmpty is set, no
\* two entries have equal coordinates, and every entry is on the curve and
\* tagged with it; otherwise it throws EmptyRing, DuplicateRingMember or
\* InvalidPoint, each only when its defect is present.
C21_CheckRingVerdict ==
    (call.fn = "checkRing")
    => (/\ call.out = "none"
            <=> (/\ Len(call.ring) > 0 \/ call.allowEmpty
                 /\ Distinct(call.ring)
                 /\ \A i \in 1..Len(call.ring) :
                       /\ isOnCurveOf(call.curve, call.ring[i])
                       /\ call.ring[i].curve = call.curve)
        /\ call.out \in {"none", "EmptyRing", "DuplicateRingMember", "InvalidPoint"}
        /\ call.out = "EmptyRing" => Len(call.ring) = 0 /\ ~call.allowEmpty
        /\ call.out = "DuplicateRingMember" => ~Distinct(call.ring)
        /\ call.out = "InvalidPoint"
             => \E i \in 1..Len(call.ring) :
                   \/ ~isOnCurveOf(call.curve, call.ring[i])
                   \/ call.ring[i].curve # call.curve)

\* checkRing rejected a ring of two objects with the same coordinates.
C21_TwinObjectsRejected ==
    /\ call.fn = "checkRing" /\ call.curve = "SECP256K1"
    /\ Len(call.ring) = 2
    /\ call.ring[1].ref # call.ring[2].ref
    /\ PointEquals(call.ring[1], call.ring[2])
    /\ call.out = "DuplicateRingMember"

\* The greatest common divisor of two naturals.
RECURSIVE gcd(_, _)
gcd(a, b) == IF a = 0 THEN b ELSE gcd(b % a, a)

\* C28: for md >= 2 and gcd(num mod md, md) = 1, inv returns x with
\* 0 <= x < md and num * x = 1 (mod md); it throws when num = 0, when md <= 0
\* and when gcd(num mod md, md) # 1.
C28_InvIsInverseOrThrows ==
    (call.fn = "inv")
    => (/\ (call.md >= 2 /\ call.num # 0 /\ gcd(call.num % call.md, call.md) = 1)
            => (/\ call.out.err = "none"
                /\ 0 <= call.out.v /\ call.out.v < call.md
                /\ (call.num * call.out.v) % call.md = 1)
        /\ (\/ call.num = 0
            \/ call.md <= 0
            \/ (call.md > 0 /\ gcd(call.num % call.md, call.md) # 1))
            => call.out.err = "no inverse")

\* inv returned the inverse of a negative number modulo a composite modulus.
C28_NegativeNumInverted ==
    /\ call.fn = "inv" /\ call.num = 0 - 5 /\ call.md = 12
    /\ call.out.err = "none"
    /\ call.out.v = 7

\* The challenge of slot i as the chain defines it: the seed
\* Hash(ring, digest, G * alpha) at slot (pi + 1) mod n, and at every other
\* slot C(r, c, ring member) of the slot before it, 0 following n - 1.
RECURSIVE ChallengeAt(_, _, _)
ChallengeAt(raw, digest, i) ==
    IF i = (raw.pi + 1) % Len(raw.ring)
    THEN hashToScalar(raw.ring, digest, PointMult(GtoPoint, raw.alpha).pt)
    ELSE computeC(raw.ring, digest,
                  At(raw.responses, (i + Len(raw.ring) - 1) % Len(raw.ring)),
                  ChallengeAt(raw, digest, (i + Len(raw.ring) - 1) % Len(raw.ring)),
                  At(raw.ring, (i + Len(raw.ring) - 1) % Len(raw.ring))).v

\* C25: the challenges signature returns are as many as the ring has members,
\* and entry i is the challenge of slot i of the chain that starts at slot
\* (pi + 1) mod n with Hash(ring, H, G * alpha) and wraps from n - 1 to 0.
C25_ChallengeChain ==
    (call.fn = "signature" /\ call.out.err = "none")
    => (/\ Len(call.out.raw.cees) = Len(call.out.raw.ring)
        /\ \A i \in 0..(Len(call.out.raw.ring) - 1) :
              At(call.out.raw.cees, i)
                = ChallengeAt(call.out.raw, keccak256(call.message), i))

\* signature returned the chain of a ring of three with the signer in the
\* middle, so that the walk wrapped and challenges lie on both sides of pi.
C25_ChainAroundMiddleSlot ==
    /\ call.fn = "signature" /\ call.out.err = "none"
    /\ Len(call.out.raw.ring) = 3
    /\ call.out.raw.pi = 1
    /\ Len(call.out.raw.cees) = 3

\* ring is caller with the point K inserted at index pi: one longer, K at pi,
\* and the caller's members, the same objects, in their order around it.
SplicedAt(ring, caller, K, pi) ==
    /\ Len(ring) = Len(caller) + 1
    /\ 0 <= pi /\ pi <= Len(caller)
    /\ PointEquals(At(ring, pi), K)
    /\ \A i \in 0..(Len(caller) - 1) :
          At(ring, IF i < pi THEN i ELSE i + 1) = At(caller, i)

\* C26: the ring sign and partialSign return is the caller's ring with the
\* signer's public key inserted at index pi, one entry longer, the caller's
\* members in their original order.
C26_ReturnedRingIsSplice ==
    /\ (origin.op = "partialSign" /\ err = "none")
        => SplicedAt(partial.ring, origin.ring, SignerPubKey(origin.key),
                     partial.pi)
    /\ (origin.op = "sign" /\ err = "none" /\ tamper = "none")
        => \E pi \in origin.piSet :
              SplicedAt(sig.ring, origin.ring, derivePubKey(origin.key).pt, pi)

\* partialSign returned a ring of three with the signer's key between the
\* caller's two members.
C26_KeyBetweenCallerMembers ==
    /\ origin.op = "partialSign" /\ err = "none"
    /\ Len(origin.ring) = 2
    /\ partial.pi = 1
    /\ Len(partial.ring) = 3

C24_NonStringMessageRejected ==
    (call.fn = "fromJsonString" /\ call.json.message.type # "string")
    => (call.out.err = "Invalid json" /\ call.out.sig = NoSig)

====
